---- MODULE Spec2Model ----
(***************************************************************************)
(* DiVA firmware top-level control loop (firmware/DiVA-fw/main.c):         *)
(* the interrupt dispatcher isr(), the cooperative loop of main() with      *)
(* cdc_task(), led_blinking_task() and the button watch, and the TinyUSB    *)
(* device callbacks that set the blink period.                              *)
(*                                                                          *)
(* Interrupt lines are bit numbers; a bitmask register is the set of the    *)
(* bit numbers that are 1.  uint32_t values are kept modulo 2^32.           *)
(***************************************************************************)
EXTENDS Integers, Sequences, FiniteSets, TLC

\* ---------------------------------------------------------------- bounds
\* hardware timer expiries delivered in one behaviour
MaxTicks == 3
\* USB controller interrupts raised in one behaviour
MaxUsbIrqs == 2
\* transfers the host sends to the CDC interface in one behaviour
MaxSends == 2
\* timer expiries, USB interrupts and host transfers together in one behaviour
\* of the whole system
MaxEvents == 3

\* ------------------------------------------------------ program constants
USB_INTERRUPT == 4
\* generated/csr.h gives the timer line; it is a bit other than USB_INTERRUPT
TIMER0_INTERRUPT == 1
\* a line that isr() does not recognise
OtherLines == {0}
IrqLines == {USB_INTERRUPT, TIMER0_INTERRUPT} \cup OtherLines

\* uint32_t arithmetic.  A uint32_t value v is the pair <<v \div 2^16, v % 2^16>>
\* of its 16-bit halves, so that all 32 bits are kept.
Half == 2 ^ 16
U32(hi, lo) == <<hi, lo>>
U32Of(n) == <<n \div Half, n % Half>>
\* a + n modulo 2^32, for a uint32_t a and 0 <= n < 2^30
U32Add(a, n) ==
    LET s == a[2] + (n % Half)
    IN  <<(a[1] + (n \div Half) + (s \div Half)) % Half, s % Half>>
\* a - b modulo 2^32, for uint32_t a and b
U32Sub(a, b) ==
    LET d == a[2] - b[2]
    IN  IF d >= 0 THEN <<(a[1] - b[1] + Half) % Half, d>>
                  ELSE <<(a[1] - b[1] - 1 + Half) % Half, d + Half>>
\* a < n, for a uint32_t a and 0 <= n < 2^31
U32Less(a, n) == a[1] < Half \div 2 /\ a[1] * Half + a[2] < n
U32Max == <<Half - 1, Half - 1>>

BLINK_NOT_MOUNTED == 250
BLINK_MOUNTED == 1000
BLINK_SUSPENDED == 2500

\* sizeof(buf) in cdc_task
BufSize == 64

\* the sentinel written to the reset control register (0xac)
RebootSentinel == 172
\* raw button register: its bits, and the values BUTTON_A_HOLD may have (the
\* header that defines it is not part of main.c): a pattern of one bit or of two
ButtonBits == {0, 1}
HoldPatterns == {{1}, {0, 1}}

VARIABLES
    \* hardware registers
    irq_pending,        \* irq_pending(): lines whose interrupt is asserted
    irq_mask,           \* irq_getmask(): lines that are enabled
    leds_out,           \* leds_out_write: level of the status indicator
    reboot_ctrl,        \* reboot_ctrl_write: last value written, 0 when none
    \* isr()
    isr_pc,             \* "idle" or the line of isr() that runs next
    irqs,               \* the local irqs of isr()
    system_ticks,       \* extern volatile uint32_t system_ticks
    \* main loop and the statics of main.c
    pc,                 \* the statement of the while(1) body that runs next
    blink_interval_ms,
    start_ms,           \* static of led_blinking_task
    led_state,          \* static of led_blinking_task
    count,              \* static of led_blinking_task
    \* CDC interface of the USB stack
    rx_fifo,            \* bytes received from the host and not yet read
    tx_out,             \* the data of the last tud_cdc_write_flush()
    \* history: what the last invocation of each handler did
    isr_calls,          \* calls and writes of the current or last isr()
    isr_entry,          \* irq_pending when the current or last isr() began
    cdc_calls,          \* calls of the last cdc_task()
    led_calls,          \* calls of the last led_blinking_task()
    cb_event,           \* the last device callback tud_task() invoked
    \* counters of what the environment has done
    boot_ticks,         \* system_ticks in the initial state
    expiries,           \* timer expiries so far
    usb_irqs,           \* USB interrupts raised so far
    timer_isrs,         \* isr() invocations begun with the timer bit pending and enabled
    refire,             \* the timer expired again after this isr() saw its bit
    rx_sent,            \* bytes the host has sent so far
    sends,              \* transfers the host has sent so far
    \* the button and what the blink task has done since power-on
    button_a_hold,      \* BUTTON_A_HOLD: the bits of the hold pattern
    button_calls,       \* register accesses of the last button watch
    toggles,            \* indicator writes since power-on
    greetings           \* greetings written since power-on

vars == <<irq_pending, irq_mask, leds_out, reboot_ctrl, isr_pc, irqs, system_ticks,
          pc, blink_interval_ms, start_ms, led_state, count, rx_fifo, tx_out,
          isr_calls, isr_entry, cdc_calls, led_calls, cb_event,
          boot_ticks, expiries, usb_irqs, timer_isrs, refire, rx_sent, sends,
          button_a_hold, button_calls, toggles, greetings>>

\* ------------------------------------------------------------ initial state
\* The tick counter and the blink phase when the loop is entered.  Every entry
\* is a state the firmware reaches: isr() can run any number of times before
\* the first loop step (period 250, start_ms 0), and with the period at 250
\* throughout, start_ms is 250 * (number of toggles) and led_state its parity
\* (2^32 - 46 = 250 * 17179869).
BootStates ==
    { [ticks |-> U32Of(0),    start |-> U32Of(0),               led |-> FALSE],
      [ticks |-> U32Of(249),  start |-> U32Of(0),               led |-> FALSE],
      [ticks |-> U32Of(999),  start |-> U32Of(0),               led |-> FALSE],
      [ticks |-> U32Of(2499), start |-> U32Of(0),               led |-> FALSE],
      [ticks |-> U32Max,      start |-> U32Sub(U32Of(0), U32Of(46)), led |-> TRUE],
      [ticks |-> U32Of(203),  start |-> U32Sub(U32Of(0), U32Of(46)), led |-> TRUE] }

\* The toggles that led to a boot state: start_ms = 250 * toggles modulo 2^32.
BootToggles(b) == IF b.start = U32Of(0) THEN 0 ELSE 17179869

\* main() lines 67-71: irq_setmask(0), irq_setie(1), then timer_init() and
\* tusb_init() enable the lines in `mask`; the statics have their initialisers.
InitWith(boots, masks) ==
    /\ \E b \in boots :
          /\ system_ticks = b.ticks
          /\ boot_ticks = b.ticks
          /\ start_ms = b.start
          /\ led_state = b.led
          /\ toggles = BootToggles(b)
    /\ button_a_hold \in HoldPatterns
    /\ button_calls = <<>>
    /\ greetings = 0
    /\ irq_mask \in masks
    /\ irq_pending = {}
    /\ leds_out = 0
    /\ reboot_ctrl = 0
    /\ isr_pc = "idle"
    /\ irqs = {}
    /\ pc = "tud_task"
    /\ blink_interval_ms = BLINK_NOT_MOUNTED
    /\ count = 0
    /\ rx_fifo = <<>>
    /\ tx_out = <<>>
    /\ isr_calls = <<>>
    /\ isr_entry = {}
    /\ cdc_calls = <<>>
    /\ led_calls = <<>>
    /\ cb_event = <<"none">>
    /\ expiries = 0
    /\ usb_irqs = 0
    /\ timer_isrs = 0
    /\ refire = FALSE
    /\ rx_sent = 0
    /\ sends = 0

\* ------------------------------------------------------ interrupt sources
\* The hardware timer expires: its pending bit is a latch, set by every expiry
\* and cleared only by a write to the acknowledge register.
TimerFire ==
    /\ expiries < MaxTicks
    /\ expiries' = expiries + 1
    /\ irq_pending' = irq_pending \cup {TIMER0_INTERRUPT}
    /\ refire' = (refire \/ (isr_pc # "idle" /\ TIMER0_INTERRUPT \in irqs))
    /\ UNCHANGED <<irq_mask, leds_out, reboot_ctrl, isr_pc, irqs, system_ticks, pc,
                   blink_interval_ms, start_ms, led_state, count, rx_fifo, tx_out,
                   isr_calls, isr_entry, cdc_calls, led_calls, cb_event,
                   boot_ticks, usb_irqs, timer_isrs, rx_sent, sends,
                   button_a_hold, button_calls, toggles, greetings>>

\* The USB controller asserts its interrupt line.
UsbFire ==
    /\ usb_irqs < MaxUsbIrqs
    /\ USB_INTERRUPT \notin irq_pending
    /\ usb_irqs' = usb_irqs + 1
    /\ irq_pending' = irq_pending \cup {USB_INTERRUPT}
    /\ UNCHANGED <<irq_mask, leds_out, reboot_ctrl, isr_pc, irqs, system_ticks, pc,
                   blink_interval_ms, start_ms, led_state, count, rx_fifo, tx_out,
                   isr_calls, isr_entry, cdc_calls, led_calls, cb_event,
                   boot_ticks, expiries, timer_isrs, refire, rx_sent, sends,
                   button_a_hold, button_calls, toggles, greetings>>

\* A line isr() does not know asserts or drops its interrupt.
OtherLine ==
    /\ \E l \in OtherLines :
          irq_pending' = IF l \in irq_pending THEN irq_pending \ {l}
                                              ELSE irq_pending \cup {l}
    /\ UNCHANGED <<irq_mask, leds_out, reboot_ctrl, isr_pc, irqs, system_ticks, pc,
                   blink_interval_ms, start_ms, led_state, count, rx_fifo, tx_out,
                   isr_calls, isr_entry, cdc_calls, led_calls, cb_event,
                   boot_ticks, expiries, usb_irqs, timer_isrs, refire, rx_sent, sends,
                   button_a_hold, button_calls, toggles, greetings>>

\* ------------------------------------------------------------------ isr()
\* line 41: irqs = irq_pending() & irq_getmask()
IrqsRead_NoMask == irq_pending
IrqsRead == irq_pending \cap irq_mask

\* line 44: if (irqs & (1 << USB_INTERRUPT))
UsbBranch_AnyBit == irqs # {}
UsbBranch == USB_INTERRUPT \in irqs

\* line 48: if (irqs & (1 << TIMER0_INTERRUPT))
TimerBranch_ElseIf == TIMER0_INTERRUPT \in irqs /\ USB_INTERRUPT \notin irqs
TimerBranch == TIMER0_INTERRUPT \in irqs

\* line 68: irq_setie(1)
InterruptsEnabled_Never == FALSE
InterruptsEnabled == TRUE

\* line 49: system_ticks++
TicksIncremented_Twice == U32Add(system_ticks, 2)
TicksIncremented == U32Add(system_ticks, 1)

\* The CPU (interrupts enabled, main line 68) enters isr() when an enabled line
\* is pending; lines 39-41.
IsrEnter ==
    /\ InterruptsEnabled
    /\ isr_pc = "idle"
    /\ pc # "reboot"
    /\ irq_pending \cap irq_mask # {}
    /\ irqs' = IrqsRead
    /\ isr_pc' = "l44"
    /\ isr_calls' = <<>>
    /\ isr_entry' = irq_pending
    /\ timer_isrs' = timer_isrs +
          (IF TIMER0_INTERRUPT \in irq_pending \cap irq_mask THEN 1 ELSE 0)
    /\ refire' = FALSE
    /\ UNCHANGED <<irq_pending, irq_mask, leds_out, reboot_ctrl, system_ticks, pc,
                   blink_interval_ms, start_ms, led_state, count, rx_fifo, tx_out,
                   cdc_calls, led_calls, cb_event,
                   boot_ticks, expiries, usb_irqs, rx_sent, sends,
                   button_a_hold, button_calls, toggles, greetings>>

\* lines 44-46: tud_int_handler(0) serves the USB controller, which drops its line.
IsrUsb ==
    /\ isr_pc = "l44"
    /\ isr_pc' = "l48"
    /\ IF UsbBranch
          THEN /\ isr_calls' = Append(isr_calls, "tud_int_handler")
               /\ irq_pending' = irq_pending \ {USB_INTERRUPT}
          ELSE UNCHANGED <<isr_calls, irq_pending>>
    /\ UNCHANGED <<irq_mask, leds_out, reboot_ctrl, irqs, system_ticks, pc,
                   blink_interval_ms, start_ms, led_state, count, rx_fifo, tx_out,
                   isr_entry, cdc_calls, led_calls, cb_event,
                   boot_ticks, expiries, usb_irqs, timer_isrs, refire, rx_sent, sends,
                   button_a_hold, button_calls, toggles, greetings>>

\* lines 48-49
IsrTimer ==
    /\ isr_pc = "l48"
    /\ IF TimerBranch
          THEN /\ system_ticks' = TicksIncremented
               /\ isr_calls' = Append(isr_calls, "system_ticks++")
               /\ isr_pc' = "l50"
          ELSE /\ isr_pc' = "idle"
               /\ UNCHANGED <<system_ticks, isr_calls>>
    /\ UNCHANGED <<irq_pending, irq_mask, leds_out, reboot_ctrl, irqs, pc,
                   blink_interval_ms, start_ms, led_state, count, rx_fifo, tx_out,
                   isr_entry, cdc_calls, led_calls, cb_event,
                   boot_ticks, expiries, usb_irqs, timer_isrs, refire, rx_sent, sends,
                   button_a_hold, button_calls, toggles, greetings>>

\* line 50: timer0_ev_pending_write(1) clears the timer's pending latch
IsrAck ==
    /\ isr_pc = "l50"
    /\ irq_pending' = irq_pending \ {TIMER0_INTERRUPT}
    /\ isr_calls' = Append(isr_calls, "timer0_ev_pending_write")
    /\ isr_pc' = "idle"
    /\ UNCHANGED <<irq_mask, leds_out, reboot_ctrl, irqs, system_ticks, pc,
                   blink_interval_ms, start_ms, led_state, count, rx_fifo, tx_out,
                   isr_entry, cdc_calls, led_calls, cb_event,
                   boot_ticks, expiries, usb_irqs, timer_isrs, refire, rx_sent, sends,
                   button_a_hold, button_calls, toggles, greetings>>

\* ------------------------------------------------------- device callbacks
\* lines 160-163
tud_mount_cb == blink_interval_ms' = BLINK_MOUNTED

\* lines 166-169
tud_umount_cb == blink_interval_ms' = BLINK_NOT_MOUNTED

\* lines 174-178
tud_suspend_cb_ActsOnFlag(remote_wakeup_en) ==
    blink_interval_ms' = IF remote_wakeup_en THEN BLINK_SUSPENDED ELSE blink_interval_ms
tud_suspend_cb(remote_wakeup_en) == blink_interval_ms' = BLINK_SUSPENDED

\* lines 181-184
tud_resume_cb == blink_interval_ms' = BLINK_MOUNTED

\* The loop body runs when the CPU is not in isr() and no enabled line is
\* pending (interrupts are enabled: an enabled pending line is taken first).
InLoop(at) ==
    /\ pc = at
    /\ isr_pc = "idle"
    /\ InterruptsEnabled => irq_pending \cap irq_mask = {}

\* line 74: tud_task() drains the stack's event queue, invoking the callback
\* of each event; any event may come in any connection state.
TudTaskCallback ==
    /\ InLoop("tud_task")
    /\ \E ev \in {<<"mount">>, <<"unmount">>, <<"suspend", TRUE>>,
                  <<"suspend", FALSE>>, <<"resume">>} :
          /\ cb_event' = ev
          /\ CASE ev[1] = "mount"   -> tud_mount_cb
               [] ev[1] = "unmount" -> tud_umount_cb
               [] ev[1] = "suspend" -> tud_suspend_cb(ev[2])
               [] ev[1] = "resume"  -> tud_resume_cb
    /\ UNCHANGED <<irq_pending, irq_mask, leds_out, reboot_ctrl, isr_pc, irqs,
                   system_ticks, pc, start_ms, led_state, count, rx_fifo, tx_out,
                   isr_calls, isr_entry, cdc_calls, led_calls,
                   boot_ticks, expiries, usb_irqs, timer_isrs, refire, rx_sent, sends,
                   button_a_hold, button_calls, toggles, greetings>>

\* line 74: tud_task() returns
TudTaskReturn_SkipCdc ==
    /\ InLoop("tud_task")
    /\ pc' = "led_blinking_task"
    /\ UNCHANGED <<irq_pending, irq_mask, leds_out, reboot_ctrl, isr_pc, irqs,
                   system_ticks, blink_interval_ms, start_ms, led_state, count,
                   rx_fifo, tx_out, isr_calls, isr_entry, cdc_calls, led_calls,
                   cb_event, boot_ticks, expiries, usb_irqs, timer_isrs, refire,
                   rx_sent, sends,
                   button_a_hold, button_calls, toggles, greetings>>
TudTaskReturn ==
    /\ InLoop("tud_task")
    /\ pc' = "cdc_task"
    /\ UNCHANGED <<irq_pending, irq_mask, leds_out, reboot_ctrl, isr_pc, irqs,
                   system_ticks, blink_interval_ms, start_ms, led_state, count,
                   rx_fifo, tx_out, isr_calls, isr_entry, cdc_calls, led_calls,
                   cb_event, boot_ticks, expiries, usb_irqs, timer_isrs, refire,
                   rx_sent, sends,
                   button_a_hold, button_calls, toggles, greetings>>

\* --------------------------------------------------------------- cdc_task
\* The host sends a transfer of n bytes; the i-th byte sent since power-on has value i % 256.
HostSend(n) ==
    /\ sends < MaxSends
    /\ sends' = sends + 1
    /\ rx_fifo' = rx_fifo \o [i \in 1..n |-> (rx_sent + i) % 256]
    /\ rx_sent' = rx_sent + n
    /\ UNCHANGED <<irq_pending, irq_mask, leds_out, reboot_ctrl, isr_pc, irqs,
                   system_ticks, pc, blink_interval_ms, start_ms, led_state, count,
                   tx_out, isr_calls, isr_entry, cdc_calls, led_calls, cb_event,
                   boot_ticks, expiries, usb_irqs, timer_isrs, refire,
                   button_a_hold, button_calls, toggles, greetings>>

Min(a, b) == IF a < b THEN a ELSE b

\* tud_cdc_available()
tud_cdc_available == Len(rx_fifo)

\* tud_cdc_read(buf, bufsize) returns the number of bytes read: at most bufsize
\* and at most what is available; short reads are valid.
CdcReadCounts(bufsize) ==
    LET m == Min(tud_cdc_available, bufsize) IN {0, m \div 2, m}

\* line 120: the second argument of tud_cdc_read
ReadRequest == BufSize

\* line 127: tud_cdc_write(buf, count)
EchoData_Reversed(buf, n) == [i \in 1..n |-> buf[n + 1 - i]]
EchoData(buf, n) == SubSeq(buf, 1, n)

\* lines 116: if ( tud_cdc_available() )
CdcHasData_Always == TRUE
CdcHasData == tud_cdc_available # 0

\* lines 109-131
cdc_task ==
    /\ InLoop("cdc_task")
    /\ pc' = "led_blinking_task"
    /\ IF CdcHasData
          THEN \E n \in CdcReadCounts(ReadRequest) :
                  LET buf == SubSeq(rx_fifo, 1, n) IN
                  /\ rx_fifo' = SubSeq(rx_fifo, n + 1, Len(rx_fifo))
                  /\ cdc_calls' = << <<"tud_cdc_read", ReadRequest, buf>>,
                                     <<"tud_cdc_write", EchoData(buf, n)>>,
                                     <<"tud_cdc_write_flush">> >>
                  /\ tx_out' = EchoData(buf, n)
          ELSE /\ cdc_calls' = <<>>
               /\ UNCHANGED <<rx_fifo, tx_out>>
    /\ UNCHANGED <<irq_pending, irq_mask, leds_out, reboot_ctrl, isr_pc, irqs,
                   system_ticks, blink_interval_ms, start_ms, led_state, count,
                   isr_calls, isr_entry, led_calls, cb_event,
                   boot_ticks, expiries, usb_irqs, timer_isrs, refire, rx_sent, sends,
                   button_a_hold, button_calls, toggles, greetings>>

\* ------------------------------------------------------ led_blinking_task
\* board_millis() returns the tick counter
board_millis == system_ticks

\* line 197: board_millis() - start_ms < blink_interval_ms
NotEnoughTime_OffByOne ==
    U32Less(U32Sub(board_millis, start_ms), blink_interval_ms - 1)
NotEnoughTime_NoWrap ==
    LET lo == start_ms[2] + blink_interval_ms
        hi == start_ms[1] + lo \div Half
    IN  \/ board_millis[1] < hi
        \/ board_millis[1] = hi /\ board_millis[2] < lo % Half
NotEnoughTime == U32Less(U32Sub(board_millis, start_ms), blink_interval_ms)

\* line 198: start_ms += blink_interval_ms
StartAdvanced_ToNow == board_millis
StartAdvanced_CatchUp ==
    LET e == U32Sub(board_millis, start_ms)
    IN  U32Add(start_ms,
               blink_interval_ms * ((e[1] * Half + e[2]) \div blink_interval_ms))
StartAdvanced == U32Add(start_ms, blink_interval_ms)

\* line 204: if ( tud_cdc_connected() ), for the value the interface reports
GreetingDue(connected) == connected

\* line 206: the value count++ passes to sprintf
GreetingArg_PreIncrement == count + 1
GreetingArg == count

\* line 211: led_state = 1 - led_state
LedStateToggled_Kept == led_state
LedStateToggled == ~ led_state

\* line 206: sprintf(str, "Hello! %u\r\n", count++)
Greeting(n) == <<"Hello! ", n, "\r\n">>

\* lines 216-219
board_led_write(state) == leds_out' = IF state THEN 1 ELSE 0

\* lines 191-212
led_blinking_task ==
    /\ InLoop("led_blinking_task")
    /\ pc' = "button"
    /\ IF NotEnoughTime
          THEN /\ led_calls' = <<>>
               /\ UNCHANGED <<start_ms, led_state, count, leds_out, tx_out,
                              toggles, greetings>>
          ELSE /\ start_ms' = StartAdvanced
               /\ board_led_write(led_state)
               /\ toggles' = toggles + 1
               /\ led_state' = LedStateToggled
               /\ \E connected \in BOOLEAN :
                     IF GreetingDue(connected)
                        THEN /\ led_calls' =
                                  << <<"board_led_write", led_state>>,
                                     <<"tud_cdc_connected", connected>>,
                                     <<"tud_cdc_write_str", Greeting(GreetingArg)>>,
                                     <<"tud_cdc_write_flush">> >>
                             /\ count' = count + 1
                             /\ greetings' = greetings + 1
                             /\ tx_out' = Greeting(GreetingArg)
                        ELSE /\ led_calls' =
                                  << <<"board_led_write", led_state>>,
                                     <<"tud_cdc_connected", connected>> >>
                             /\ UNCHANGED <<count, tx_out, greetings>>
    /\ UNCHANGED <<irq_pending, irq_mask, reboot_ctrl, isr_pc, irqs, system_ticks,
                   blink_interval_ms, rx_fifo, isr_calls, isr_entry, cdc_calls,
                   cb_event, boot_ticks, expiries, usb_irqs, timer_isrs, refire,
                   rx_sent, sends, button_a_hold, button_calls>>

\* ----------------------------------------------------------- button watch
\* line 79: if (b_val & BUTTON_A_HOLD)
HoldSeen(b_val) == b_val \cap button_a_hold # {}

\* lines 78-81; the write of the sentinel restarts the device
ButtonWatch ==
    /\ InLoop("button")
    /\ \E b_val \in SUBSET ButtonBits :
          IF HoldSeen(b_val)
             THEN /\ reboot_ctrl' = RebootSentinel
                  /\ button_calls' = << <<"button_raw_read", b_val>>,
                                        <<"reboot_ctrl_write", RebootSentinel>> >>
                  /\ pc' = "reboot"
             ELSE /\ pc' = "tud_task"
                  /\ button_calls' = << <<"button_raw_read", b_val>> >>
                  /\ UNCHANGED reboot_ctrl
    /\ UNCHANGED <<irq_pending, irq_mask, leds_out, isr_pc, irqs, system_ticks,
                   blink_interval_ms, start_ms, led_state, count, rx_fifo, tx_out,
                   isr_calls, isr_entry, cdc_calls, led_calls, cb_event,
                   boot_ticks, expiries, usb_irqs, timer_isrs, refire, rx_sent, sends,
                   button_a_hold, toggles, greetings>>

\* ------------------------------------------------------------- the system
\* main() as it initialises the lines: timer and USB enabled.  The whole
\* system: isr() and its interrupt sources interleaved with the loop body.
Init ==
    InitWith({b \in BootStates : b.ticks \in {U32Of(249), U32Max}},
             {{TIMER0_INTERRUPT, USB_INTERRUPT}})
EventsLeft == expiries + usb_irqs + sends < MaxEvents
Next ==
    \/ (EventsLeft /\ TimerFire)
    \/ (EventsLeft /\ UsbFire)
    \/ (EventsLeft /\ HostSend(1))
    \/ OtherLine
    \/ IsrEnter \/ IsrUsb \/ IsrTimer \/ IsrAck
    \/ TudTaskCallback \/ TudTaskReturn
    \/ cdc_task
    \/ led_blinking_task
    \/ ButtonWatch
Spec == Init /\ [][Next]_vars

\* The loop body with the timer interrupt and the device callbacks: the
\* connection-state blink task.  The host sends nothing and no other line fires.
InitBlink == InitWith(BootStates, {{TIMER0_INTERRUPT, USB_INTERRUPT}})
NextBlink ==
    \/ TimerFire
    \/ IsrEnter \/ IsrUsb \/ IsrTimer \/ IsrAck
    \/ TudTaskCallback \/ TudTaskReturn
    \/ cdc_task
    \/ led_blinking_task
    \/ ButtonWatch
SpecBlink == InitBlink /\ [][NextBlink]_vars

\* The loop body with the host sending data: the USB transport task.  No
\* interrupt fires, so the tick counter stands still.
InitCdc == InitWith({[ticks |-> U32Of(0), start |-> U32Of(0), led |-> FALSE]},
                    {{TIMER0_INTERRUPT, USB_INTERRUPT}})
NextCdc ==
    \/ \E n \in {1, 3, BufSize + 1} : HostSend(n)
    \/ TudTaskReturn
    \/ cdc_task
    \/ led_blinking_task
    \/ ButtonWatch
SpecCdc == InitCdc /\ [][NextCdc]_vars

\* The dispatcher and its interrupt sources alone: the loop body does not run.
InitIsr == InitWith(BootStates, SUBSET IrqLines)
NextIsr == TimerFire \/ UsbFire \/ OtherLine \/ IsrEnter \/ IsrUsb \/ IsrTimer \/ IsrAck
SpecIsr == InitIsr /\ [][NextIsr]_vars

\* The loop body and the timer interrupt under the scheduling of the hardware:
\* the CPU executes the next statement of isr() and of the loop body (no
\* statement of main.c waits), and the timer expires while it has expiries
\* left.  The device callbacks are the host's and carry no fairness.
InitLive ==
    InitWith({b \in BootStates : b.ticks \in {U32Of(249), U32Of(203)}},
             {{TIMER0_INTERRUPT, USB_INTERRUPT}})
NextLive ==
    \/ TimerFire
    \/ IsrEnter \/ IsrUsb \/ IsrTimer \/ IsrAck
    \/ TudTaskCallback \/ TudTaskReturn
    \/ cdc_task
    \/ led_blinking_task
    \/ ButtonWatch
Fairness ==
    /\ WF_vars(TimerFire)
    /\ WF_vars(IsrEnter) /\ WF_vars(IsrUsb) /\ WF_vars(IsrTimer) /\ WF_vars(IsrAck)
    /\ WF_vars(TudTaskReturn)
    /\ WF_vars(cdc_task)
    /\ WF_vars(led_blinking_task)
    /\ WF_vars(ButtonWatch)
SpecLive == InitLive /\ [][NextLive]_vars /\ Fairness

\* ------------------------------------------------------------------ claims
Range(f) == {f[i] : i \in DOMAIN f}

\* the lines isr() had to service when it began: pending and enabled
IsrDue == isr_entry \cap irq_mask

\* C1: every invocation of isr() that begins with the timer bit pending and
\* enabled adds exactly 1 to system_ticks, modulo 2^32: after N such
\* invocations the counter is its initial value plus N (less the one whose
\* increment, line 49, is still to run).
C1_TickPerTimerIsr ==
    LET inflight == IF isr_pc \in {"l44", "l48"} /\ TIMER0_INTERRUPT \in IsrDue
                       THEN 1 ELSE 0
    IN  system_ticks = U32Add(boot_ticks, timer_isrs - inflight)

\* three back-to-back timer invocations, the counter wrapping through 0
C1_Witness ==
    /\ isr_pc = "idle"
    /\ timer_isrs = 3
    /\ boot_ticks = U32Max
    /\ system_ticks = U32Of(2)

\* C2: when the timer expires again between isr() seeing the timer bit and its
\* acknowledge write, the expiry is not lost: the acknowledge leaves it pending,
\* so that it gets its own increment.
C2_NoLostTick ==
    (isr_pc = "idle" /\ refire) => TIMER0_INTERRUPT \in irq_pending

\* C3: one invocation of isr() services exactly the sources that were pending
\* and enabled when it began: the USB handler is called iff the USB bit was,
\* the counter incremented and the timer acknowledged iff the timer bit was,
\* each once.
C3_AllDueServiced ==
    isr_pc = "idle" =>
        /\ ("tud_int_handler" \in Range(isr_calls)) <=> (USB_INTERRUPT \in IsrDue)
        /\ ("system_ticks++" \in Range(isr_calls)) <=> (TIMER0_INTERRUPT \in IsrDue)
        /\ ("timer0_ev_pending_write" \in Range(isr_calls))
              <=> (TIMER0_INTERRUPT \in IsrDue)
        /\ Len(isr_calls) = Cardinality(Range(isr_calls))

\* USB and timer pending and enabled together, a third line pending but masked
C3_Witness ==
    /\ isr_pc = "idle"
    /\ isr_entry = IrqLines
    /\ irq_mask = {USB_INTERRUPT, TIMER0_INTERRUPT}
    /\ Len(isr_calls) = 3

\* the connection state the event table gives after the last callback
ConnState ==
    CASE cb_event[1] \in {"none", "unmount"} -> "NOT_MOUNTED"
      [] cb_event[1] \in {"mount", "resume"} -> "MOUNTED"
      [] cb_event[1] = "suspend"             -> "SUSPENDED"

\* C4: whatever the state in which an event arrives, the blink period is the
\* one of the state the event leads to: 250 at power-on and after unmount,
\* 1000 after mount and resume, 2500 after suspend with either flag value.
C4_PeriodFollowsState ==
    blink_interval_ms =
        CASE ConnState = "NOT_MOUNTED" -> 250
          [] ConnState = "MOUNTED"     -> 1000
          [] ConnState = "SUSPENDED"   -> 2500

\* a suspend with the remote-wakeup flag clear, seen by the blink task
C4_Witness ==
    /\ cb_event = <<"suspend", FALSE>>
    /\ blink_interval_ms = 2500
    /\ pc = "button"
    /\ led_calls # <<>>

\* C5: cdc_task invoked with zero bytes available reads nothing, writes
\* nothing and flushes nothing, and leaves the transmitted output as it was.
C5_IdleCdcTaskNoEffect ==
    [][ (pc = "cdc_task" /\ pc' = "led_blinking_task" /\ Len(rx_fifo) = 0)
          => (cdc_calls' = <<>> /\ UNCHANGED <<rx_fifo, tx_out>>) ]_vars

\* an idle invocation after an earlier echo: the echoed output still stands
C5_Witness ==
    /\ pc = "led_blinking_task"
    /\ cdc_calls = <<>>
    /\ rx_fifo = <<>>
    /\ tx_out = <<1>>

\* C6: a read that returns 0 bytes is followed by no write and no flush.
C6_ZeroReadNoWrite ==
    (cdc_calls # <<>> /\ cdc_calls[1][3] = <<>>) => Len(cdc_calls) = 1

\* C7: when cdc_task reads k >= 1 bytes it asks for at most 64, gets at most
\* 64, then writes exactly the bytes read, in order, then flushes once.
C7_EchoFidelity ==
    (cdc_calls # <<>> /\ Len(cdc_calls[1][3]) >= 1) =>
        /\ Len(cdc_calls) = 3
        /\ cdc_calls[1][1] = "tud_cdc_read"
        /\ cdc_calls[1][2] <= 64
        /\ Len(cdc_calls[1][3]) <= 64
        /\ cdc_calls[2] = <<"tud_cdc_write", cdc_calls[1][3]>>
        /\ cdc_calls[3] = <<"tud_cdc_write_flush">>
        /\ tx_out = cdc_calls[1][3]

\* a full buffer read out of 65 available bytes
C7_Witness ==
    /\ cdc_calls # <<>>
    /\ Len(cdc_calls[1][3]) = 64
    /\ Len(rx_fifo) = 1
    /\ tx_out = [i \in 1..64 |-> i]

\* an invocation of led_blinking_task, and one that toggles
LedTaskStep == pc = "led_blinking_task" /\ pc' = "button"
ToggleStep == LedTaskStep /\ led_calls' # <<>>

\* C8: every toggle advances start_ms by exactly the blink period of that
\* invocation, modulo 2^32, whatever the tick counter reads.
C8_NoDrift ==
    [][ ToggleStep => start_ms' = U32Add(start_ms, blink_interval_ms) ]_vars

\* a toggle two ticks late: the timestamp is 250, not the 251 of the counter
C8_Witness ==
    /\ pc = "button"
    /\ led_calls # <<>>
    /\ start_ms = U32Of(250)
    /\ system_ticks = U32Of(251)

\* C9: an invocation of led_blinking_task with elapsed < period changes
\* nothing and calls nothing; a greeting comes only with an indicator write.
C9_GateFrame ==
    [][ LedTaskStep =>
          /\ U32Less(U32Sub(system_ticks, start_ms), blink_interval_ms)
                => /\ led_calls' = <<>>
                   /\ UNCHANGED <<start_ms, led_state, count, leds_out, tx_out>>
          /\ (\E i \in DOMAIN led_calls' : led_calls'[i][1] = "tud_cdc_write_str")
                => led_calls'[1][1] = "board_led_write" ]_vars

\* an invocation one tick short of the period
C9_Witness ==
    /\ pc = "button"
    /\ led_calls = <<>>
    /\ start_ms = U32Of(0)
    /\ system_ticks = U32Of(999)
    /\ blink_interval_ms = 1000

\* C10: a greeting is written only when the connection state is MOUNTED and
\* the interface reports a logical connection.
C10_GreetingOnlyWhenMounted ==
    (pc = "button" /\ Len(led_calls) > 2) =>
        /\ blink_interval_ms = BLINK_MOUNTED
        /\ led_calls[2] = <<"tud_cdc_connected", TRUE>>

C12_ResetOnlyOnFullPattern ==
    button_calls # <<>> =>
        /\ button_calls[1][1] = "button_raw_read"
        /\ Len(button_calls) <= 2
        /\ (Len(button_calls) = 2)
              <=> (button_a_hold \subseteq button_calls[1][2])
        /\ Len(button_calls) = 2
              => button_calls[2] = <<"reboot_ctrl_write", 172>>

\* C13: with the connection state NOT_MOUNTED after an unmount event, an
\* invocation of cdc_task reads, writes and flushes nothing.
C13_NoEchoAfterUnmount ==
    (pc = "led_blinking_task" /\ cb_event = <<"unmount">>
        /\ blink_interval_ms = BLINK_NOT_MOUNTED)
      => cdc_calls = <<>>

\* C14: system_ticks has one writer: a step changes it only if it is line 49
\* of isr(), and then by exactly +1 modulo 2^32; no step of the loop body, of
\* a callback or of the environment changes it.
C14_SingleWriter ==
    [][ system_ticks' # system_ticks =>
          /\ isr_pc = "l48"
          /\ isr_pc' = "l50"
          /\ system_ticks' = U32Add(system_ticks, 1) ]_vars

\* isr() has counted two ticks, through the wrap, between two loop statements
C14_Witness ==
    /\ pc = "led_blinking_task"
    /\ isr_pc = "idle"
    /\ boot_ticks = U32Max
    /\ system_ticks = U32Of(1)
    /\ cb_event # <<"none">>

\* a step of isr(): its entry or one of its statements
IsrStep == isr_pc' # isr_pc

\* C15: a step of isr() leaves the blink period, the last-toggle timestamp,
\* the stored level, the indicator, the greeting counter and the reset
\* register alone; an invocation with neither the USB nor the timer bit in
\* pending & mask changes nothing and calls nothing.
C15_IsrFrame ==
    [][ IsrStep =>
          /\ UNCHANGED <<blink_interval_ms, start_ms, led_state, leds_out, count,
                         reboot_ctrl>>
          /\ (IsrDue' \cap {USB_INTERRUPT, TIMER0_INTERRUPT} = {})
                => /\ UNCHANGED <<system_ticks, irq_pending>>
                   /\ isr_calls' = <<>> ]_vars

\* an invocation for an enabled line that isr() does not recognise has returned
C15_Witness ==
    /\ isr_pc = "idle"
    /\ isr_entry = OtherLines
    /\ OtherLines \subseteq irq_mask
    /\ isr_calls = <<>>
    /\ system_ticks = boot_ticks

\* the tick counter is fewer than blink_interval_ms increments past start_ms,
\* counting the increments one by one with the wrap of the 32-bit counter
WithinPeriod ==
    \E k \in 0..(blink_interval_ms - 1) : U32Add(start_ms, k) = system_ticks

\* C16: led_blinking_task toggles exactly when the ticks since start_ms,
\* counted modulo 2^32, are at least the period, and a toggle moves start_ms
\* on by the period modulo 2^32, also when either value has wrapped.
C16_WrapGate ==
    [][ LedTaskStep =>
          /\ (led_calls' # <<>>) <=> ~ WithinPeriod
          /\ led_calls' # <<>> => start_ms' = U32Add(start_ms, blink_interval_ms)
          /\ led_calls' = <<>> => start_ms' = start_ms ]_vars

\* the toggle whose period began 46 ticks before the counter wrapped
C16_Witness ==
    /\ pc = "button"
    /\ led_calls # <<>>
    /\ boot_ticks = U32Of(203)
    /\ system_ticks = U32Of(204)
    /\ start_ms = U32Of(204)

\* the statement the loop body runs after each statement (lines 74-81)
LoopOrder ==
    { <<"tud_task", "cdc_task">>, <<"cdc_task", "led_blinking_task">>,
      <<"led_blinking_task", "button">>, <<"button", "tud_task">>,
      <<"button", "reboot">> }

Elapsed == U32Sub(system_ticks, start_ms)

\* C18: one invocation of led_blinking_task writes the indicator at most once
\* and moves start_ms on by nothing or by one period, however late it is; it
\* toggles whenever the elapsed time is at least the period, so a backlog is
\* worked off one toggle per invocation, and after a toggle the elapsed time
\* is the old elapsed time minus the period.
C18_OneTogglePerCall ==
    [][ LedTaskStep =>
          /\ toggles' \in {toggles, toggles + 1}
          /\ Len(SelectSeq(led_calls', LAMBDA e : e[1] = "board_led_write")) =
                toggles' - toggles
          /\ start_ms' = IF toggles' = toggles THEN start_ms
                         ELSE U32Add(start_ms, blink_interval_ms)
          /\ (toggles' # toggles) <=> ~ U32Less(Elapsed, blink_interval_ms)
          /\ toggles' # toggles =>
                Elapsed' = U32Sub(Elapsed, U32Of(blink_interval_ms)) ]_vars

\* the second toggle of a backlog: the loop was entered 2499 ticks after
\* power-on with the period at 250 after an unmount, and start_ms is at 500
C18_Witness ==
    /\ pc = "button"
    /\ led_calls # <<>>
    /\ cb_event = <<"unmount">>
    /\ blink_interval_ms = BLINK_NOT_MOUNTED
    /\ boot_ticks = U32Of(2499)
    /\ start_ms = U32Of(500)
    /\ toggles = 2

\* the level of the k-th indicator write since power-on
LevelOfWrite(k) == (k - 1) % 2

\* C19: the k-th indicator write since power-on has level (k - 1) mod 2, the
\* first being off; the stored level has been inverted once per toggle; an
\* invocation that toggles writes the indicator exactly once, first of all,
\* whether or not it then writes a greeting.
C19_LevelAlternates ==
    /\ led_state = (toggles % 2 = 1)
    /\ leds_out = IF toggles = 0 THEN 0 ELSE LevelOfWrite(toggles)
    /\ led_calls # <<>> =>
          /\ toggles >= 1
          /\ led_calls[1] = <<"board_led_write", LevelOfWrite(toggles) = 1>>
          /\ \A i \in 2..Len(led_calls) : led_calls[i][1] # "board_led_write"

\* the second write since power-on, level on, in an invocation that wrote no
\* greeting, after a first write that came with a greeting
C19_Witness ==
    /\ pc = "button"
    /\ toggles = 2
    /\ greetings = 1
    /\ Len(led_calls) = 2
    /\ leds_out = 1
    /\ led_state = FALSE

\* the gate of line 197 is open: a period or more has passed since start_ms
Due == ~ U32Less(Elapsed, blink_interval_ms)

\* the reset was requested (line 80): the program has ended
Rebooted == pc = "reboot"

====
